---- MODULE Spec2Model ----
(***************************************************************************)
(* Voting and results aggregation of the alx-poll application.             *)
(*                                                                         *)
(* The relational store (tables polls, options, votes with their           *)
(* constraints and row-level-security policies) is the shared state; each  *)
(* vote request is a small process whose steps are the store round-trips   *)
(* of its handler:                                                         *)
(*   api  : POST /polls/{id}/vote          (read poll, read vote, insert)  *)
(*   lib  : submitVote of lib/db.ts        (read vote, insert)             *)
(*   page : the vote page                  (load poll + vote, insert)      *)
(* Reads of a poll (GET /polls/{id}, fetchPollById) issue their queries    *)
(* and compute their answer from the rows returned; they are operators     *)
(* over the store.                                                         *)
(*                                                                         *)
(* Further specifications over the same store:                             *)
(*   SpecResults : the results page (fetch, winner, sort, percentages)     *)
(*   SpecCreate  : creation of a poll by its three paths                   *)
(*   SpecManage  : PUT and DELETE /polls/{id} next to a vote request       *)
(*   SpecBrowse  : the poll listings and the interactive demo              *)
(***************************************************************************)
EXTENDS Integers, FiniteSets, Sequences, TLC

(* ---------------------------- bounds ----------------------------------- *)

MaxTime == 2

(* the most votes one option of the results page's poll may have *)
MaxVotes == 23

(* the most options a request to create a poll may carry *)
MaxOptions == 3

Users == {"u1", "u2"}

Reqs == {"r1", "r2"}

(* poll ids a request may name; "px" is the id of no stored poll *)
PollIds == {"p1", "p2", "px"}

(* option ids a request may name; "ox" is the id of no stored option *)
OptionIds == {"o1", "o2", "o3", "ox"}

(* end_date is a nullable column: {} is NULL, {t} is the timestamp t *)
EndDates == {{}} \cup {{t} : t \in 1..MaxTime}

VARIABLES polls, options, votes, now, req, mgmt, ui, listing, demo

vars == <<polls, options, votes, now, req, mgmt, ui, listing, demo>>

store == <<polls, options, votes>>

(* ------------------------- the relational store ------------------------ *)

(* CREATE TABLE polls (id, title, description, user_id, is_public,
   created_at, end_date); description is nullable: {} is NULL *)
FullPollRow(id, title, description, owner, pub, t, e) ==
  [id |-> id, title |-> title, description |-> description, user_id |-> owner,
   is_public |-> pub, created_at |-> t, end_date |-> e]

(* a poll created at time 0 with the title "Poll" and no description; a text
   is the sequence of its characters *)
PollRow(id, owner, pub, e) ==
  FullPollRow(id, <<"P", "o", "l", "l">>, {}, owner, pub, 0, e)

(* CREATE TABLE options (id, poll_id, text) *)
FullOptionRow(id, pid, text) == [id |-> id, poll_id |-> pid, text |-> text]

OptionRow(id, pid) == FullOptionRow(id, pid, <<"a">>)

(* CREATE TABLE votes (id, poll_id, option_id, user_id, created_at) *)
VoteRow(id, pid, oid, uid, t) ==
  [id |-> id, poll_id |-> pid, option_id |-> oid, user_id |-> uid, created_at |-> t]

(* policies "Anyone can view public polls", "Users can view their own polls" *)
PollVisible(p, uid) == p.is_public = TRUE \/ uid = p.user_id

VisiblePolls(uid) == {p \in polls : PollVisible(p, uid)}

(* policies "Anyone can view options for public polls",
   "Users can view options for their own polls" *)
VisibleOptions(uid) ==
  {o \in options : \E p \in polls : p.id = o.poll_id /\ PollVisible(p, uid)}

(* policies "Anyone can view votes for public polls", "Users can view votes
   for their own polls", "Users can view their own votes" *)
VisibleVotes(uid) ==
  {v \in votes : \/ \E p \in polls : p.id = v.poll_id /\ PollVisible(p, uid)
                 \/ uid = v.user_id}

(* error codes of the store *)
ErrNone == "none"
ErrUnavailable == "unavailable"
ErrNotFound == "PGRST116"
ErrRls == "42501"
ErrForeignKey == "23503"
ErrUnique == "23505"

(* the votes table without its UNIQUE constraint *)
UniqueViolationNever(row) == FALSE

(* UNIQUE(poll_id, user_id) on votes *)
UniqueViolation(row) ==
  \E v \in votes : v.poll_id = row.poll_id /\ v.user_id = row.user_id

(* the REFERENCES clauses of votes *)
ForeignKeyViolation(row) ==
  \/ ~ \E p \in polls : p.id = row.poll_id
  \/ ~ \E o \in options : o.id = row.option_id
  \/ row.user_id \notin Users

(* the outcome of INSERT INTO votes issued by uid: policy "Users can vote on
   polls" (WITH CHECK auth.uid() = user_id), then the table's constraints *)
InsertVoteError(row, uid, up) ==
  IF ~up THEN ErrUnavailable
  ELSE IF uid # row.user_id THEN ErrRls
  ELSE IF ForeignKeyViolation(row) THEN ErrForeignKey
  ELSE IF UniqueViolation(row) THEN ErrUnique
  ELSE ErrNone

(* .from('votes').select(..).eq('poll_id', pid).eq('user_id', uid) as seen by
   the session user asker *)
SelectVote(pid, uid, asker) ==
  {v \in VisibleVotes(asker) : v.poll_id = pid /\ v.user_id = uid}

(* .from('polls').select(.., options(id)).eq('id', pid) as seen by uid *)
SelectPoll(pid, uid) == {p \in VisiblePolls(uid) : p.id = pid}

EmbeddedOptions(pid, uid) == {o \in VisibleOptions(uid) : o.poll_id = pid}

EmbeddedVotes(pid, uid) == {v \in VisibleVotes(uid) : v.poll_id = pid}

(* poll.end_date && new Date(poll.end_date) < new Date() *)
HasEnded(p, t) == \E e \in p.end_date : e < t

(* ------------------------------ responses ------------------------------ *)

Response(status, body, voted) == [status |-> status, body |-> body, hasVoted |-> voted]

NoResponse == Response(0, "", FALSE)

RespPollNotFound == Response(404, "Poll not found", FALSE)
RespAccessDenied == Response(403, "Access denied", FALSE)
RespPollEnded == Response(400, "This poll has ended", FALSE)
RespInvalidOption == Response(400, "Invalid option for this poll", FALSE)
RespCheckFailed == Response(500, "Failed to check voting status", FALSE)
RespAlreadyVoted == Response(400, "You have already voted in this poll", TRUE)
RespSubmitFailed == Response(500, "Failed to submit vote", FALSE)
RespSuccess == Response(200, "Vote submitted successfully", TRUE)

(* ------------------------------ requests ------------------------------- *)

Request(path, pc, uid, pid, oid, resp, err) ==
  [path |-> path, pc |-> pc, user |-> uid, poll |-> pid, option |-> oid,
   resp |-> resp, err |-> err]

Idle == Request("none", "idle", "none", "none", "none", NoResponse, ErrNone)

Done(r, resp, err) == [r EXCEPT !.pc = "done", !.resp = resp, !.err = err]

(* a request on a poll itself: POST /polls of route.ts ("POST"), the earlier
   POST /polls of part_003 ("POST-earlier"), createPoll of lib/db.ts
   ("createPoll"), PUT /polls/{id} ("PUT"), DELETE /polls/{id} ("DELETE");
   body is the request body (the arguments of createPoll); an absent or
   null field is {} *)
PollBody(title, description, texts, e, pub, owner) ==
  [title |-> title, description |-> description, options |-> texts,
   endDate |-> e, isPublic |-> pub, userId |-> owner]

NoBody == PollBody(<<>>, {}, <<>>, {}, {}, "none")

PollRequest(op, pc, uid, pid, body, resp, err) ==
  [op |-> op, pc |-> pc, user |-> uid, poll |-> pid, body |-> body,
   resp |-> resp, err |-> err]

NoPollRequest == PollRequest("none", "idle", "none", "none", NoBody, NoResponse, ErrNone)

(* the state of the results page: ResultsPageState with the poll's options
   and totalVotes, the winning option and the rows of the vote breakdown *)
ResultsPage(stage, opts, total, winner, rows) ==
  [stage |-> stage, options |-> opts, totalVotes |-> total, winner |-> winner,
   rows |-> rows]

ResultsLoading == ResultsPage("loading", <<>>, 0, {}, <<>>)

(* the answer of the one poll listing of a behaviour (GET /polls of route.ts:
   "GET", fetchPolls of lib/db.ts: "fetchPolls") with the row range it asked
   the store for; rows are the ids of the polls of the page *)
Listing(op, uid, limit, page, from, to, status, rows, total, hasMore) ==
  [op |-> op, user |-> uid, limit |-> limit, page |-> page, from |-> from,
   to |-> to, status |-> status, rows |-> rows, total |-> total,
   hasMore |-> hasMore]

NoListing == Listing("none", "none", 0, 0, 0, 0, 0, <<>>, 0, FALSE)

(* the state of the InteractiveDemo component; the selected option is {} for
   null; last is the handler that ran last *)
DemoState(selectedPoll, hasVoted, selectedOption, localVotes, last) ==
  [selectedPoll |-> selectedPoll, hasVoted |-> hasVoted,
   selectedOption |-> selectedOption, localVotes |-> localVotes, last |-> last]

(* const demoPolls: ids and seed votes of the options of the two demo polls *)
demoPolls ==
  <<[options |-> <<"opt-1", "opt-2", "opt-3", "opt-4">>, votes |-> <<45, 38, 22, 15>>],
    [options |-> <<"opt-5", "opt-6", "opt-7">>, votes |-> <<8, 12, 6>>]>>

(* the useState initial values; selectedPoll counts from 1 here *)
DemoStart == DemoState(1, FALSE, {}, demoPolls[1].votes, "none")

InitPolls ==
  { {PollRow("p1", "u1", pub, e), PollRow("p2", "u2", TRUE, {})} :
      pub \in BOOLEAN, e \in EndDates }

InitOptions ==
  {OptionRow("o1", "p1"), OptionRow("o2", "p1"), OptionRow("o3", "p2"),
   OptionRow("o4", "p2")}

Init ==
  /\ polls \in InitPolls
  /\ options = InitOptions
  /\ votes = {}
  /\ now = 0
  /\ req = [r \in Reqs |-> Idle]
  /\ mgmt = NoPollRequest
  /\ ui = ResultsLoading
  /\ listing = NoListing
  /\ demo = DemoStart

(* time passes *)
Tick ==
  /\ now < MaxTime
  /\ now' = now + 1
  /\ UNCHANGED <<polls, options, votes, req, mgmt, ui, listing, demo>>

(* ---------------- POST /polls/{id}/vote (the vote route) ---------------- *)

(* the checks on the poll without the validation of the option *)
VoteRouteChecksNoOption(uid, pid, oid, t, up) ==
  LET found == IF up THEN SelectPoll(pid, uid) ELSE {}
  IN  IF found = {} THEN RespPollNotFound
      ELSE LET poll == CHOOSE p \in found : TRUE
           IN  IF ~poll.is_public /\ poll.user_id # uid THEN RespAccessDenied
               ELSE IF HasEnded(poll, t) THEN RespPollEnded
               ELSE NoResponse

(* lines 80-124: the poll is read once, with its options, and the four checks
   on it are made on that row *)
VoteRouteChecks(uid, pid, oid, t, up) ==
  LET found == IF up THEN SelectPoll(pid, uid) ELSE {}
  IN  IF found = {} THEN RespPollNotFound
      ELSE LET poll == CHOOSE p \in found : TRUE
           IN  IF ~poll.is_public /\ poll.user_id # uid THEN RespAccessDenied
               ELSE IF HasEnded(poll, t) THEN RespPollEnded
               ELSE IF ~ \E o \in EmbeddedOptions(pid, uid) : o.id = oid
                    THEN RespInvalidOption
               ELSE NoResponse

VoteRouteStart(r) ==
  /\ req[r].pc = "idle"
  /\ \E uid \in Users, pid \in PollIds, oid \in OptionIds, up \in BOOLEAN :
       LET resp == VoteRouteChecks(uid, pid, oid, now, up)
           q == Request("api", "voteCheck", uid, pid, oid, NoResponse, ErrNone)
       IN  req' = [req EXCEPT ![r] =
                     IF resp = NoResponse THEN q
                     ELSE Done(q, resp, IF up THEN ErrNone ELSE ErrUnavailable)]
  /\ UNCHANGED <<polls, options, votes, now, mgmt, ui, listing, demo>>

(* the already-voted check with its result ignored *)
VoteRouteCheckResponseIgnored(existing, up) ==
  IF ~up THEN RespCheckFailed ELSE NoResponse

(* lines 126-152: has the user already voted *)
VoteRouteCheckResponse(existing, up) ==
  IF ~up THEN RespCheckFailed
  ELSE IF existing # {} THEN RespAlreadyVoted
  ELSE NoResponse

VoteRouteCheck(r) ==
  /\ req[r].path = "api"
  /\ req[r].pc = "voteCheck"
  /\ \E up \in BOOLEAN :
       LET q == req[r]
           resp == VoteRouteCheckResponse(SelectVote(q.poll, q.user, q.user), up)
       IN  req' = [req EXCEPT ![r] =
                     IF resp = NoResponse THEN [q EXCEPT !.pc = "insert"]
                     ELSE Done(q, resp, IF up THEN ErrNone ELSE ErrUnavailable)]
  /\ UNCHANGED <<polls, options, votes, now, mgmt, ui, listing, demo>>

(* the insert with its error ignored *)
VoteRouteInsertResponseUnchecked(err) == RespSuccess

(* lines 163-175: every error of the insert is answered alike *)
VoteRouteInsertResponse(err) ==
  IF err # ErrNone THEN RespSubmitFailed ELSE RespSuccess

(* lines 154-175 *)
VoteRouteInsert(r) ==
  /\ req[r].path = "api"
  /\ req[r].pc = "insert"
  /\ \E up \in BOOLEAN :
       LET q == req[r]
           row == VoteRow(r, q.poll, q.option, q.user, now)
           err == InsertVoteError(row, q.user, up)
       IN  /\ votes' = IF err = ErrNone THEN votes \cup {row} ELSE votes
           /\ req' = [req EXCEPT ![r] = Done(q, VoteRouteInsertResponse(err), err)]
  /\ UNCHANGED <<polls, options, now, mgmt, ui, listing, demo>>

(* ------------------------ submitVote of lib/db.ts ----------------------- *)

Thrown(msg) == Response(0, msg, FALSE)

LibAlreadyVoted == Thrown("You have already voted in this poll")
LibSuccess == Response(0, "success", FALSE)

(* lines 230-241: if (!checkError && existingVote) throw; the session of the
   client is that of the user whose id is passed *)
SubmitVoteCheckResponse(existing, up) ==
  IF up /\ existing # {} THEN LibAlreadyVoted ELSE NoResponse

SubmitVoteStart(r) ==
  /\ req[r].pc = "idle"
  /\ \E uid \in Users, pid \in PollIds, oid \in OptionIds, up \in BOOLEAN :
       LET resp == SubmitVoteCheckResponse(SelectVote(pid, uid, uid), up)
           q == Request("lib", "insert", uid, pid, oid, NoResponse, ErrNone)
       IN  req' = [req EXCEPT ![r] =
                     IF resp = NoResponse THEN q ELSE Done(q, resp, ErrNone)]
  /\ UNCHANGED <<polls, options, votes, now, mgmt, ui, listing, demo>>

(* lines 243-254: if (error) throw error, the store's error as it is *)
SubmitVoteInsertResponse(err) ==
  IF err # ErrNone THEN Thrown(err) ELSE LibSuccess

SubmitVoteInsert(r) ==
  /\ req[r].path = "lib"
  /\ req[r].pc = "insert"
  /\ \E up \in BOOLEAN :
       LET q == req[r]
           row == VoteRow(r, q.poll, q.option, q.user, now)
           err == InsertVoteError(row, q.user, up)
       IN  /\ votes' = IF err = ErrNone THEN votes \cup {row} ELSE votes
           /\ req' = [req EXCEPT ![r] = Done(q, SubmitVoteInsertResponse(err), err)]
  /\ UNCHANGED <<polls, options, now, mgmt, ui, listing, demo>>

(* ------------------------------ the vote page --------------------------- *)

PageLoadFailed == Thrown("Poll not found or access denied")
PageRedirected == Response(0, "redirect to results", TRUE)
PagePollEnded == Response(0, "This poll has ended", FALSE)
PageSuccess == Response(0, "Vote submitted successfully!", TRUE)

(* fetchPollData, lines 67-119, and the render that follows it, lines
   205-295: the form is shown for a loaded poll that has not ended to a user
   who has not voted; the option submitted is one of the radio items, that
   is one of the options loaded with the poll *)
PageLoadResponse(found, existing, t) ==
  IF found = {} THEN PageLoadFailed
  ELSE IF existing # {} THEN PageRedirected
  ELSE IF HasEnded(CHOOSE p \in found : TRUE, t) THEN PagePollEnded
  ELSE NoResponse

VotePageLoad(r) ==
  /\ req[r].pc = "idle"
  /\ \E uid \in Users, pid \in PollIds, up \in BOOLEAN :
       LET found == IF up THEN SelectPoll(pid, uid) ELSE {}
           resp == PageLoadResponse(found, SelectVote(pid, uid, uid), now)
           q == Request("page", "form", uid, pid, "none", NoResponse, ErrNone)
       IN  IF resp # NoResponse
           THEN req' = [req EXCEPT ![r] =
                          Done(q, resp, IF up THEN ErrNone ELSE ErrUnavailable)]
           ELSE \E o \in EmbeddedOptions(pid, uid) :
                  req' = [req EXCEPT ![r] = [q EXCEPT !.option = o.id]]
  /\ UNCHANGED <<polls, options, votes, now, mgmt, ui, listing, demo>>

(* handleVoteSubmission, lines 125-161: the insert alone, of the radio item
   selected in the form *)
HandleVoteSubmissionResponse(err) ==
  IF err # ErrNone THEN Thrown(err) ELSE PageSuccess

HandleVoteSubmission(r) ==
  /\ req[r].path = "page"
  /\ req[r].pc = "form"
  /\ \E up \in BOOLEAN :
       LET q == req[r]
           row == VoteRow(r, q.poll, q.option, q.user, now)
           err == InsertVoteError(row, q.user, up)
       IN  /\ votes' = IF err = ErrNone THEN votes \cup {row} ELSE votes
           /\ req' = [req EXCEPT ![r] = Done(q, HandleVoteSubmissionResponse(err), err)]
  /\ UNCHANGED <<polls, options, now, mgmt, ui, listing, demo>>

(* ------------------------------ poll reads ------------------------------ *)

RECURSIVE SumVotes(_, _)
(* the sum of the counts f[o] over the options o of S *)
SumVotes(f, S) ==
  IF S = {} THEN 0
  ELSE LET o == CHOOSE x \in S : TRUE IN f[o] + SumVotes(f, S \ {o})

PollDetails(status, body, counts, total) ==
  [status |-> status, body |-> body, options |-> counts, totalVotes |-> total]

PollError(status, body) == PollDetails(status, body, [o \in {} |-> 0], 0)

(* the aggregation grouped over the votes, which leaves out the options that
   have none *)
formatPollDetailsGrouped(pollOptions, pollVotes) ==
  PollDetails(200, "ok",
              [o \in {v.option_id : v \in pollVotes} |->
                 Cardinality({v \in pollVotes : v.option_id = o})],
              Cardinality(pollVotes))

(* formatPollDetails: options[].votes = poll.votes.filter(vote =>
   vote.option_id === option.id).length, totalVotes = poll.votes.length *)
formatPollDetails(pollOptions, pollVotes) ==
  PollDetails(200, "ok",
              [o \in {x.id : x \in pollOptions} |->
                 Cardinality({v \in pollVotes : v.option_id = o})],
              Cardinality(pollVotes))

(* GET /polls/{id}: one select of the poll with its options and votes, as
   the requester may see them, then the access check, then the formatting *)
GetPoll(uid, pid) ==
  LET found == SelectPoll(pid, uid)
  IN  IF found = {} THEN PollError(404, "Poll not found")
      ELSE LET poll == CHOOSE p \in found : TRUE
           IN  IF ~poll.is_public /\ uid # poll.user_id
               THEN PollError(403, "Access denied")
               ELSE formatPollDetails(EmbeddedOptions(pid, uid), EmbeddedVotes(pid, uid))

(* get_poll_results (SECURITY DEFINER, so outside row-level security):
   options o LEFT JOIN votes v ON o.id = v.option_id WHERE o.poll_id = pid,
   COUNT(v.id) grouped by option *)
get_poll_results(pid) ==
  [o \in {x.id : x \in {y \in options : y.poll_id = pid}} |->
     Cardinality({v \in votes : v.option_id = o})]

(* fetchPollById of lib/db.ts: the poll with its options, then the results of
   get_poll_results; an option without a result row counts 0, totalVotes is
   the sum of the result rows *)
fetchPollById(pid, uid) ==
  LET found == SelectPoll(pid, uid)
      results == get_poll_results(pid)
  IN  IF found = {} THEN PollError(0, ErrNotFound)
      ELSE PollDetails(0, "ok",
                       [o \in {x.id : x \in EmbeddedOptions(pid, uid)} |->
                          IF o \in DOMAIN results THEN results[o] ELSE 0],
                       SumVotes(results, DOMAIN results))

Next ==
  \/ Tick
  \/ \E r \in Reqs : VoteRouteStart(r)
  \/ \E r \in Reqs : VoteRouteCheck(r)
  \/ \E r \in Reqs : VoteRouteInsert(r)
  \/ \E r \in Reqs : SubmitVoteStart(r)
  \/ \E r \in Reqs : SubmitVoteInsert(r)
  \/ \E r \in Reqs : VotePageLoad(r)
  \/ \E r \in Reqs : HandleVoteSubmission(r)

Spec == Init /\ [][Next]_vars

(* ======================= properties of the vote paths =================== *)

HasVote(pid, uid) == \E v \in votes : v.poll_id = pid /\ v.user_id = uid

StoredPoll(pid) == {p \in polls : p.id = pid}

(* section 4.1, precondition 3: endsAt is null or now < endsAt *)
NotEnded(p, t) == \A e \in p.end_date : t < e

OptionOfPoll(oid, pid) == \E o \in options : o.id = oid /\ o.poll_id = pid

(* request r takes its first step, on path, and the store answers it *)
Starts(r, path) ==
  /\ req[r].pc = "idle"
  /\ req'[r].path = path
  /\ req'[r].err = ErrNone

(* request r takes the step of the vote route that looks for its vote *)
Checks(r) ==
  /\ req[r].path = "api"
  /\ req[r].pc = "voteCheck"
  /\ req'[r] # req[r]

(* C1: under every interleaving of vote requests, the votes table holds at
   most one vote per (poll_id, user_id) pair. *)
C1_OneVotePerVoter ==
  \A v \in votes, w \in votes :
    (v.poll_id = w.poll_id /\ v.user_id = w.user_id) => v = w

(* two requests of one voter on one poll both passed the already-voted check;
   one insert was stored and the other met the constraint *)
C1_Witness ==
  \E r \in Reqs, q \in Reqs :
    /\ r # q
    /\ req[r].user = req[q].user /\ req[r].poll = req[q].poll
    /\ req[r].pc = "done" /\ req[r].err = ErrNone
    /\ \E v \in votes : v.id = r
    /\ req[q].pc = "done" /\ req[q].err = ErrUnique

(* C2, as stated: a vote request of a voter who already has a stored vote on
   the poll is answered AlreadyVoted (400, hasVoted true), whichever option of
   the poll it names, and leaves polls, options and votes unchanged. *)
C2_AlwaysAlreadyVoted ==
  [][\A r \in Reqs :
       /\ ( /\ Starts(r, "api")
            /\ HasVote(req'[r].poll, req'[r].user)
            /\ OptionOfPoll(req'[r].option, req'[r].poll) )
            => /\ req'[r].pc = "done" => req'[r].resp = RespAlreadyVoted
               /\ store' = store
       /\ (Checks(r) /\ HasVote(req[r].poll, req[r].user) /\ req'[r].err = ErrNone)
            => /\ req'[r].pc = "done" /\ req'[r].resp = RespAlreadyVoted
               /\ store' = store]_vars

(* C2, amended: a vote request of a voter who already has a stored vote on a
   poll that is returned to them and has not ended, naming an option of that
   poll, passes the checks on the poll and is answered AlreadyVoted (400,
   hasVoted true) by the already-voted check when the store answers that
   check; the request leaves polls, options and votes unchanged. *)
C2_AlreadyVoted ==
  [][\A r \in Reqs :
       /\ ( /\ Starts(r, "api")
            /\ HasVote(req'[r].poll, req'[r].user)
            /\ \E p \in SelectPoll(req'[r].poll, req'[r].user) : NotEnded(p, now)
            /\ OptionOfPoll(req'[r].option, req'[r].poll) )
            => req'[r].pc = "voteCheck" /\ store' = store
       /\ (Checks(r) /\ HasVote(req[r].poll, req[r].user))
            => /\ req'[r].pc = "done"
               /\ req'[r].err = ErrNone => req'[r].resp = RespAlreadyVoted
               /\ store' = store]_vars

(* a second request of a voter was answered AlreadyVoted while the vote of
   their first request is stored *)
C2_Witness ==
  \E r \in Reqs :
    /\ req[r].path = "api" /\ req[r].pc = "done"
    /\ req[r].resp = RespAlreadyVoted
    /\ \E v \in votes : v.id # r /\ v.poll_id = req[r].poll /\ v.user_id = req[r].user

(* section 4.1: the first failing precondition, in the order PollNotFound,
   AccessDenied, PollEnded, InvalidOption, of a request made at time t *)
FirstFailing(uid, pid, oid, t) ==
  IF StoredPoll(pid) = {} THEN RespPollNotFound
  ELSE LET p == CHOOSE x \in StoredPoll(pid) : TRUE
       IN  IF ~(p.is_public \/ uid = p.user_id) THEN RespAccessDenied
           ELSE IF ~NotEnded(p, t) THEN RespPollEnded
           ELSE IF ~OptionOfPoll(oid, pid) THEN RespInvalidOption
           ELSE NoResponse

(* C3: when several preconditions of a vote request fail at once, the error
   reported is that of the first failing one in the order PollNotFound,
   AccessDenied, PollEnded, InvalidOption, AlreadyVoted. *)
C3_ErrorPrecedence ==
  [][\A r \in Reqs :
       /\ Starts(r, "api") =>
            LET e == FirstFailing(req'[r].user, req'[r].poll, req'[r].option, now)
            IN  IF e # NoResponse
                THEN req'[r].pc = "done" /\ req'[r].resp = e
                ELSE req'[r].pc = "voteCheck"
       /\ (Checks(r) /\ HasVote(req[r].poll, req[r].user) /\ req'[r].err = ErrNone)
            => req'[r].resp = RespAlreadyVoted]_vars

(* C4: on every path that can write a vote, a vote attempt made at a time
   now >= endsAt (now = endsAt included) on a poll returned to the voter is
   answered PollEnded and writes no vote. *)
C4_PollEnded ==
  [][\A r \in Reqs :
       ( /\ req[r].pc = "idle"
         /\ req'[r].pc # "idle"
         /\ req'[r].err = ErrNone
         /\ \E p \in SelectPoll(req'[r].poll, req'[r].user) : ~NotEnded(p, now) )
       => /\ req'[r].pc = "done"
          /\ req'[r].resp.body = RespPollEnded.body]_vars

(* C5: a request of the vote route naming an option that is not an option of
   the addressed poll (an option of another poll, or of none), on a poll that
   is returned to the voter and has not ended, is answered InvalidOption and
   writes no vote. *)
C5_InvalidOption ==
  [][\A r \in Reqs :
       ( /\ Starts(r, "api")
         /\ \E p \in SelectPoll(req'[r].poll, req'[r].user) : NotEnded(p, now)
         /\ ~OptionOfPoll(req'[r].option, req'[r].poll) )
       => /\ req'[r].pc = "done"
          /\ req'[r].resp = RespInvalidOption
          /\ votes' = votes]_vars

(* a request naming an option of another poll was answered InvalidOption and
   none of the stored votes is its own *)
C5_Witness ==
  \E r \in Reqs :
    /\ req[r].path = "api" /\ req[r].pc = "done"
    /\ req[r].resp = RespInvalidOption
    /\ \E o \in options : o.id = req[r].option /\ o.poll_id # req[r].poll
    /\ ~ \E v \in votes : v.id = r

(* C6: for a stored private poll and a requester who is not its owner, both
   GET /polls/{id} and POST /polls/{id}/vote answer 403 AccessDenied, not 404,
   and the vote request writes no vote. *)
C6_AccessDenied ==
  /\ \A uid \in Users : \A p \in polls :
       (~p.is_public /\ uid # p.user_id) => GetPoll(uid, p.id).status = 403
  /\ \A r \in Reqs :
       ( /\ req[r].path = "api" /\ req[r].pc = "done" /\ req[r].err = ErrNone
         /\ \E p \in polls : /\ p.id = req[r].poll
                             /\ ~p.is_public /\ req[r].user # p.user_id )
       => /\ req[r].resp = RespAccessDenied
          /\ ~ \E v \in votes : v.id = r

(* C7: a vote request answered with success has created exactly one vote, with
   the poll, option and voter of the request, and has changed no poll, no
   option and no other vote; a request of the vote route changes the store
   in no other step. *)
C7_OneVoteCreated ==
  [][\A r \in Reqs :
       (req'[r] # req[r] /\ req'[r].path = "api") =>
         IF req'[r].resp = RespSuccess
         THEN /\ \E v \in votes' \ votes :
                   /\ votes' = votes \cup {v}
                   /\ v.poll_id = req'[r].poll
                   /\ v.option_id = req'[r].option
                   /\ v.user_id = req'[r].user
              /\ polls' = polls /\ options' = options
         ELSE store' = store]_vars

(* a request of the vote route was answered with success and its vote is
   stored *)
C7_Witness ==
  \E r \in Reqs :
    /\ req[r].path = "api" /\ req[r].pc = "done" /\ req[r].resp = RespSuccess
    /\ \E v \in votes : /\ v.id = r /\ v.poll_id = req[r].poll
                        /\ v.option_id = req[r].option /\ v.user_id = req[r].user

(* C8: every stored vote names an option of the poll it names, whichever path
   wrote it. *)
C8_OptionOfVotedPoll ==
  \A v \in votes : OptionOfPoll(v.option_id, v.poll_id)

(* C9: an insert of the vote route that the UNIQUE constraint rejected is
   answered as a duplicate vote, not with the answer given when the store is
   unavailable. *)
C9_DuplicateVoteReported ==
  \A r \in Reqs :
    (req[r].path = "api" /\ req[r].pc = "done" /\ req[r].err = ErrUnique)
      => req[r].resp # VoteRouteInsertResponse(ErrUnavailable)

(* C10: for every poll, the aggregate returned has totalVotes equal to the
   sum of the votes of its options, by GET /polls/{id} and by fetchPollById. *)
C10_TotalIsSum ==
  \A uid \in Users : \A p \in polls :
    LET g == GetPoll(uid, p.id)
        f == fetchPollById(p.id, uid)
    IN  /\ g.status = 200 => g.totalVotes = SumVotes(g.options, DOMAIN g.options)
        /\ f.body = "ok" => f.totalVotes = SumVotes(f.options, DOMAIN f.options)

(* ===================== properties of the aggregation ==================== *)

OptionsOf(pid) == {o.id : o \in {x \in options : x.poll_id = pid}}

(* C11: the options returned by the aggregation of a poll are exactly the
   poll's options, whatever the votes; an option without votes is present
   with the count 0. *)
C11_AllOptionsReturned ==
  \A uid \in Users : \A p \in polls :
    LET g == GetPoll(uid, p.id)
        f == fetchPollById(p.id, uid)
    IN  /\ g.status = 200 =>
              /\ DOMAIN g.options = OptionsOf(p.id)
              /\ \A o \in OptionsOf(p.id) :
                    (~ \E v \in votes : v.option_id = o) => g.options[o] = 0
        /\ f.body = "ok" =>
              /\ DOMAIN f.options = OptionsOf(p.id)
              /\ \A o \in OptionsOf(p.id) :
                    (~ \E v \in votes : v.option_id = o) => f.options[o] = 0

(* a poll is returned with one option that has votes and one that has none *)
C11_Witness ==
  \E uid \in Users : \E p \in polls :
    LET g == GetPoll(uid, p.id)
    IN  /\ g.status = 200
        /\ \E o \in DOMAIN g.options : g.options[o] > 0
        /\ \E o \in DOMAIN g.options : g.options[o] = 0

(* ===================== the results page of a poll ====================== *)
(* app/polls/[id]/results/page.tsx: the page fetches GET /polls/{id} and    *)
(* renders the options of the answer, in the order of the answer's array,   *)
(* which is the order in which the store returned the option rows.          *)

(* the options of the poll shown, in the order of their creation *)
CreationOrder == <<"o1", "o2">>

(* the profile of the i-th voter *)
Voter(i) == "v" \o ToString(i)

(* the option of the i-th ballot when the options have the counts c *)
OptionOfBallot(c, i) ==
  IF i <= c["o1"] THEN "o1" ELSE "o2"

(* the votes table after c[o] voters chose the option o, each voter once *)
Ballots(c) ==
  {VoteRow(Voter(i), "p1", OptionOfBallot(c, i), Voter(i), 0) :
     i \in 1..(c["o1"] + c["o2"])}

InitResults ==
  /\ polls = {PollRow("p1", "u1", TRUE, {}), PollRow("p2", "u2", TRUE, {})}
  /\ options = InitOptions
  /\ votes \in {Ballots(c) : c \in [{"o1", "o2"} -> 0..MaxVotes]}
  /\ now = 0
  /\ req = [r \in Reqs |-> Idle]
  /\ mgmt = NoPollRequest
  /\ ui = ResultsLoading
  /\ listing = NoListing
  /\ demo = DemoStart

(* the orders in which the rows S may come back from a query that has no
   ORDER BY *)
RowOrders(S) ==
  {s \in [1..Cardinality(S) -> S] : \A i, j \in DOMAIN s : i # j => s[i] # s[j]}

PollOption(id, n) == [id |-> id, votes |-> n]

(* lines 52-88: the fetch; any answer that is not ok becomes the error text *)
ResultsError(status) ==
  ResultsPage(IF status = 404 THEN "Poll not found"
              ELSE IF status = 403 THEN "Access denied"
              ELSE "Failed to load poll results", <<>>, 0, {}, <<>>)

FetchPollResults ==
  /\ ui.stage = "loading"
  /\ \E uid \in Users : \E up \in BOOLEAN :
       LET g == IF up THEN GetPoll(uid, "p1") ELSE PollError(404, "Poll not found")
       IN  IF g.status # 200
           THEN ui' = ResultsError(g.status)
           ELSE \E order \in RowOrders(DOMAIN g.options) :
                  ui' = ResultsPage("loaded",
                                    [i \in DOMAIN order |->
                                       PollOption(order[i], g.options[order[i]])],
                                    g.totalVotes, {}, <<>>)
  /\ UNCHANGED <<polls, options, votes, now, req, mgmt, listing, demo>>

(* Math.round((votes / total) * 100) in double precision: the pairs with
   total <= 200 whose double product lies just below k + 1/2 although the
   exact quotient is k + 1/2 (23 / 40 * 100 = 57.49999999999999) *)
RoundedDown ==
  {<<23, 40>>, <<46, 80>>, <<69, 120>>, <<92, 160>>, <<29, 200>>, <<57, 200>>,
   <<113, 200>>, <<115, 200>>}

(* lines 103-106 *)
calculatePercentage(n, total) ==
  IF total = 0 THEN 0
  ELSE IF <<n, total>> \in RoundedDown THEN (100 * n) \div total
  ELSE (200 * n + total) \div (2 * total)

RECURSIVE ReduceFirst(_, _, _)
(* the reduction that keeps the earlier of two options with equal votes *)
ReduceFirst(opts, i, prev) ==
  IF i > Len(opts) THEN prev
  ELSE ReduceFirst(opts, i + 1, IF prev.votes >= opts[i].votes THEN prev ELSE opts[i])

RECURSIVE Reduce(_, _, _)
(* options.reduce((prev, current) => (prev.votes > current.votes) ? prev :
   current) from the element i on *)
Reduce(opts, i, prev) ==
  IF i > Len(opts) THEN prev
  ELSE Reduce(opts, i + 1, IF prev.votes > opts[i].votes THEN prev ELSE opts[i])

(* lines 108-114; null is {} *)
getWinningOption(opts) ==
  IF Len(opts) = 0 THEN {} ELSE {Reduce(opts, 2, opts[1])}

RECURSIVE InsertByVotes(_, _)
(* x placed behind the elements of s that have at least as many votes *)
InsertByVotes(s, x) ==
  IF s = <<>> THEN <<x>>
  ELSE IF Head(s).votes >= x.votes THEN <<Head(s)>> \o InsertByVotes(Tail(s), x)
  ELSE <<x>> \o s

RECURSIVE SortByVotes(_)
(* options.sort((a, b) => b.votes - a.votes): a stable sort, elements with
   equal votes keep the order they had *)
SortByVotes(opts) ==
  IF opts = <<>> THEN <<>>
  ELSE InsertByVotes(SortByVotes(SubSeq(opts, 1, Len(opts) - 1)), opts[Len(opts)])

(* one row of the vote breakdown, lines 246-275 *)
ResultRow(option, total, winner) ==
  [id |-> option.id, votes |-> option.votes,
   percentage |-> calculatePercentage(option.votes, total),
   isWinner |-> \E w \in winner : w.id = option.id]

(* lines 166-245: the winner is taken from the array as fetched, then the
   array is sorted in place and mapped to the rows *)
RenderResults ==
  /\ ui.stage = "loaded"
  /\ LET winner == getWinningOption(ui.options)
         sorted == SortByVotes(ui.options)
     IN  ui' = ResultsPage("rendered", sorted, ui.totalVotes, winner,
                           [i \in DOMAIN sorted |->
                              ResultRow(sorted[i], ui.totalVotes, winner)])
  /\ UNCHANGED <<polls, options, votes, now, req, mgmt, listing, demo>>

NextResults ==
  \/ FetchPollResults
  \/ RenderResults

SpecResults == InitResults /\ [][NextResults]_vars

(* ==================== properties of the results page ==================== *)

(* C12: every displayed percentage is votes / totalVotes * 100 rounded to
   the nearest integer, halves upwards, when totalVotes > 0, and is 0 for
   every option when totalVotes = 0. *)
C12_PercentageRounded ==
  ui.stage = "rendered" =>
    \A i \in DOMAIN ui.rows :
      LET row == ui.rows[i]
          total == ui.totalVotes
      IN  IF total = 0 THEN row.percentage = 0
          ELSE /\ (2 * row.percentage - 1) * total <= 200 * row.votes
               /\ 200 * row.votes < (2 * row.percentage + 1) * total

(* the options of the rendered page that have the most votes *)
Leaders == {i \in DOMAIN ui.options :
              \A j \in DOMAIN ui.options : ui.options[j].votes <= ui.options[i].votes}

(* C13: the winner designated is the option with strictly the most votes;
   when several options tie for the most votes (all at zero included) no
   winner is designated. *)
C13_StrictWinner ==
  ui.stage = "rendered" =>
    IF Cardinality(Leaders) = 1
    THEN ui.winner = {ui.options[i] : i \in Leaders}
    ELSE ui.winner = {}

(* the first and the last place of the option list that hold the most votes *)
FirstLeader == CHOOSE i \in Leaders : \A j \in Leaders : i <= j

LastLeader == CHOOSE i \in Leaders : \A j \in Leaders : j <= i

(* the page takes the winner from the option list it fetched *)
Renders == ui.stage = "loaded" /\ ui'.stage = "rendered" /\ ui.options # <<>>

(* C25, as stated: among the options tied for the maximum vote count, the one
   that comes first in the option list is the one designated winner. *)
C25_FirstMaxWins ==
  [][Renders => ui'.winner = {ui.options[FirstLeader]}]_vars

(* C25, amended: among the options tied for the maximum vote count, the one
   that comes last in the option list as fetched is the one designated
   winner. *)
C25_LastMaxWins ==
  [][Renders => ui'.winner = {ui.options[LastLeader]}]_vars

(* a page rendered from two options with equal, positive votes: the stable
   sort kept their fetched order and the second one is the winner *)
C25_Witness ==
  /\ ui.stage = "rendered"
  /\ Len(ui.options) = 2
  /\ ui.options[1].votes = ui.options[2].votes
  /\ ui.options[1].votes > 0
  /\ ui.winner = {ui.options[2]}

(* the options of the store in creation order with their stored counts *)
StoredCounts ==
  [i \in DOMAIN CreationOrder |->
     PollOption(CreationOrder[i],
                Cardinality({v \in votes : v.option_id = CreationOrder[i]}))]

(* C14: the rendered sequence depends on the stored votes and options only:
   descending votes, ties in creation order, whatever the order in which the
   store returned the rows. *)
C14_DeterministicOrder ==
  ui.stage = "rendered" => ui.options = SortByVotes(StoredCounts)

(* ========================= creation of a poll ========================== *)
(* POST /polls of app/api/polls/route.ts ("POST"), the earlier POST /polls  *)
(* of part_003 ("POST-earlier") and createPoll of lib/db.ts ("createPoll"): *)
(* a write of the poll row, then a write of its option rows, each a round   *)
(* trip to the store of its own.                                            *)

(* the texts of a request: "", " " and "a " *)
Texts == {<<>>, <<" ">>, <<"a", " ">>}

OptionLists == UNION {[1..n -> Texts] : n \in 0..MaxOptions}

(* the bodies of a request to create a poll *)
Bodies ==
  {PollBody(title, d, texts, e, pub, owner) :
     title \in Texts, d \in {{}, {<<" ">>}, {<<"a", " ">>}}, texts \in OptionLists,
     e \in {{}} \cup {{t} : t \in 0..MaxTime},
     pub \in {{}} \cup {{b} : b \in BOOLEAN}, owner \in Users}

RECURSIVE TrimStart(_)
TrimStart(text) ==
  IF text # <<>> /\ Head(text) = " " THEN TrimStart(Tail(text)) ELSE text

RECURSIVE TrimEnd(_)
TrimEnd(text) ==
  IF text # <<>> /\ text[Len(text)] = " "
  THEN TrimEnd(SubSeq(text, 1, Len(text) - 1)) ELSE text

(* String.prototype.trim *)
Trim(text) == TrimEnd(TrimStart(text))

(* !x || x.trim().length === 0 for a string x *)
Blank(text) == text = <<>> \/ Len(Trim(text)) = 0

(* part_003 lines 565-570: !title || !options || options.length < 2 *)
ValidatePollEarlier(body) ==
  IF body.title = <<>> \/ Len(body.options) < 2
  THEN Response(400, "Invalid request. Title and at least 2 options are required.", FALSE)
  ELSE NoResponse

(* the validation of the earlier route in place of the four checks *)
ValidatePollAsEarlier(body, t) == ValidatePollEarlier(body)

(* route.ts lines 178-205: the first failing validation, NoResponse if none *)
ValidatePoll(body, t) ==
  IF Blank(body.title) THEN Response(400, "Poll title is required", FALSE)
  ELSE IF Len(body.options) < 2
  THEN Response(400, "At least 2 options are required", FALSE)
  ELSE IF \E i \in DOMAIN body.options : Blank(body.options[i])
  THEN Response(400, "All options must be non-empty strings", FALSE)
  ELSE IF \E e \in body.endDate : e <= t
  THEN Response(400, "End date must be in the future", FALSE)
  ELSE NoResponse

(* isPublic !== undefined ? isPublic : true *)
PublicOrDefault(pub) == IF pub = {} THEN TRUE ELSE CHOOSE b \in pub : TRUE

(* description?.trim() || null *)
TrimOrNull(d) == {Trim(t) : t \in {x \in d : ~Blank(x)}}

(* the id the store gives the poll created *)
NewPollId == "p3"

(* the id the store gives the i-th option created *)
NewOptionId(i) == "o" \o ToString(4 + i)

(* the poll row each path writes *)
NewPollRow(op, uid, body, t) ==
  IF op = "POST"
  THEN FullPollRow(NewPollId, Trim(body.title), TrimOrNull(body.description), uid,
                   PublicOrDefault(body.isPublic), t, body.endDate)
  ELSE FullPollRow(NewPollId, body.title, body.description,
                   IF op = "createPoll" THEN body.userId ELSE uid,
                   PublicOrDefault(body.isPublic), t, body.endDate)

(* options.map(option => ({poll_id: poll.id, text: option.trim()})); the
   earlier route and createPoll keep the text as given *)
NewOptionRows(op, pid, texts) ==
  {FullOptionRow(NewOptionId(i), pid,
                 IF op = "POST" THEN Trim(texts[i]) ELSE texts[i]) :
     i \in DOMAIN texts}

(* INSERT INTO polls by uid: policy "Users can create polls" *)
InsertPollError(row, uid, up) ==
  IF ~up THEN ErrUnavailable
  ELSE IF uid # row.user_id THEN ErrRls
  ELSE ErrNone

(* INSERT INTO options by uid: policy "Users can create options for their
   own polls" *)
InsertOptionsError(rows, uid, up) ==
  IF ~up THEN ErrUnavailable
  ELSE IF \E row \in rows :
            ~ \E p \in polls : p.id = row.poll_id /\ p.user_id = uid
  THEN ErrRls
  ELSE ErrNone

(* DELETE FROM polls WHERE id = pid by uid: policy "Users can delete their
   own polls" hides the polls of others from the statement *)
PollsDeleted(pid, uid) == {p \in polls : p.id = pid /\ p.user_id = uid}

(* options.poll_id REFERENCES polls(id) ON DELETE CASCADE *)
OptionsDeleted(pid, uid) ==
  {o \in options : \E p \in PollsDeleted(pid, uid) : o.poll_id = p.id}

(* a delete that leaves the votes of the poll in place *)
VotesDeletedNone(pid, uid) == {}

(* votes.poll_id REFERENCES polls(id) ON DELETE CASCADE,
   votes.option_id REFERENCES options(id) ON DELETE CASCADE *)
VotesDeleted(pid, uid) ==
  {v \in votes : \/ \E p \in PollsDeleted(pid, uid) : v.poll_id = p.id
                 \/ \E o \in OptionsDeleted(pid, uid) : v.option_id = o.id}

RespCreateFailed == Response(500, "Failed to create poll", FALSE)
RespOptionsFailed == Response(500, "Failed to create poll options", FALSE)
RespCreated == Response(201, "success", FALSE)

(* the answer of each path to a failed write of the poll *)
PollInsertResponse(op, err) ==
  IF op = "createPoll" THEN Thrown(err) ELSE RespCreateFailed

(* authentication and validation, at the handler's clock: route.ts lines
   160-206, part_003 lines 546-570; createPoll has neither *)
CreatePollStart ==
  /\ mgmt.pc = "idle"
  /\ \E op \in {"POST", "POST-earlier", "createPoll"} :
     \E uid \in Users : \E body \in Bodies :
       LET q == PollRequest(op, "idle", uid, NewPollId, body, NoResponse, ErrNone)
           invalid == IF op = "POST" THEN ValidatePoll(body, now)
                      ELSE IF op = "POST-earlier" THEN ValidatePollEarlier(body)
                      ELSE NoResponse
       IN  /\ op # "createPoll" => body.userId = uid
           /\ mgmt' = IF invalid # NoResponse
                      THEN Done(q, invalid, ErrNone)
                      ELSE [q EXCEPT !.pc = "insert"]
  /\ UNCHANGED <<polls, options, votes, now, req, ui, listing, demo>>

(* the write of the poll row, created_at being the store's NOW() when the
   statement arrives: route.ts lines 208-226, part_003 lines 572-588, db.ts
   lines 186-199 *)
CreatePollInsert ==
  /\ mgmt.pc = "insert"
  /\ \E up \in BOOLEAN :
       LET row == NewPollRow(mgmt.op, mgmt.user, mgmt.body, now)
           err == InsertPollError(row, mgmt.user, up)
       IN  IF err # ErrNone
           THEN /\ mgmt' = Done(mgmt, PollInsertResponse(mgmt.op, err), err)
                /\ polls' = polls
           ELSE /\ mgmt' = [mgmt EXCEPT !.pc = "options"]
                /\ polls' = polls \cup {row}
  /\ UNCHANGED <<options, votes, now, req, ui, listing, demo>>

(* the answer of each path to the write of the options *)
OptionsInsertResponse(op, err) ==
  IF err = ErrNone
  THEN IF op = "createPoll" THEN Response(0, "pollId", FALSE) ELSE RespCreated
  ELSE IF op = "createPoll" THEN Thrown(err) ELSE RespOptionsFailed

(* the write of the option rows: route.ts lines 228-256, part_003 lines
   592-608, db.ts lines 201-213; only route.ts goes on to the cleanup *)
CreatePollOptions ==
  /\ mgmt.pc = "options"
  /\ \E up \in BOOLEAN :
       LET rows == NewOptionRows(mgmt.op, mgmt.poll, mgmt.body.options)
           err == InsertOptionsError(rows, mgmt.user, up)
       IN  /\ options' = IF err = ErrNone THEN options \cup rows ELSE options
           /\ mgmt' = IF err # ErrNone /\ mgmt.op = "POST"
                      THEN [mgmt EXCEPT !.pc = "cleanup", !.err = err]
                      ELSE Done(mgmt, OptionsInsertResponse(mgmt.op, err), err)
  /\ UNCHANGED <<polls, votes, now, req, ui, listing, demo>>

(* route.ts lines 241-248: await supabase.from('polls').delete().eq('id',
   poll.id), its outcome not looked at, then the 500 *)
CreatePollCleanup ==
  /\ mgmt.pc = "cleanup"
  /\ \E up \in BOOLEAN :
       /\ polls' = IF up THEN polls \ PollsDeleted(mgmt.poll, mgmt.user) ELSE polls
       /\ options' = IF up THEN options \ OptionsDeleted(mgmt.poll, mgmt.user)
                     ELSE options
       /\ votes' = IF up THEN votes \ VotesDeleted(mgmt.poll, mgmt.user) ELSE votes
  /\ mgmt' = Done(mgmt, OptionsInsertResponse(mgmt.op, mgmt.err), mgmt.err)
  /\ UNCHANGED <<now, req, ui, listing, demo>>

InitCreate ==
  /\ polls = {PollRow("p1", "u1", TRUE, {}), PollRow("p2", "u2", TRUE, {})}
  /\ options = InitOptions
  /\ votes = {}
  /\ now = 0
  /\ req = [r \in Reqs |-> Idle]
  /\ mgmt = NoPollRequest
  /\ ui = ResultsLoading
  /\ listing = NoListing
  /\ demo = DemoStart

NextCreate ==
  \/ Tick
  \/ CreatePollStart
  \/ CreatePollInsert
  \/ CreatePollOptions
  \/ CreatePollCleanup

SpecCreate == InitCreate /\ [][NextCreate]_vars

(* ===================== properties of poll creation ===================== *)

(* an empty or whitespace-only title, fewer than 2 options, an empty option
   text, or an end date that is not after the time t *)
InvalidBody(body, t) ==
  \/ Trim(body.title) = <<>>
  \/ Len(body.options) < 2
  \/ \E i \in DOMAIN body.options : body.options[i] = <<>>
  \/ \E e \in body.endDate : e <= t

(* C15: POST /polls with an empty or whitespace-only title, fewer than 2
   options, an empty option text or an end date not in the future answers
   400 and writes no poll row and no option row. *)
C15_ValidationBeforeWrite ==
  [][(/\ mgmt.pc = "idle"
      /\ mgmt'.op = "POST"
      /\ InvalidBody(mgmt'.body, now))
     => (/\ mgmt'.pc = "done"
         /\ mgmt'.resp.status = 400
         /\ polls' = polls
         /\ options' = options)]_vars

(* POST /polls was refused for an empty option text alone *)
C15_Witness ==
  /\ mgmt.op = "POST"
  /\ mgmt.pc = "done"
  /\ mgmt.resp.status = 400
  /\ Trim(mgmt.body.title) # <<>>
  /\ Len(mgmt.body.options) >= 2
  /\ \E i \in DOMAIN mgmt.body.options : mgmt.body.options[i] = <<>>
  /\ \A e \in mgmt.body.endDate : e > now
  /\ ~ \E p \in polls : p.id = NewPollId

(* C16: once a creation whose write failed has completed, no poll row
   created by it is in the store. *)
C16_NoOrphanPoll ==
  (mgmt.pc = "done" /\ mgmt.err # ErrNone)
    => ~ \E p \in polls : p.id = mgmt.poll

(* C17: in every state every stored poll has at least 2 options. *)
C17_AtLeastTwoOptions ==
  \A p \in polls : Cardinality({o \in options : o.poll_id = p.id}) >= 2

(* C21: every poll stored by a creation with an end date has the end date
   strictly after its created_at. *)
C21_EndsAfterCreation ==
  \A p \in polls : p.id = NewPollId => \A e \in p.end_date : p.created_at < e

(* ================== PUT and DELETE /polls/{id} (part_002) ============== *)
(* Both handlers first read the poll's user_id under row-level security and *)
(* compare it with the session user, then issue their write.                *)

(* the body of a PUT: a field that is not in the body is {}; endDate, when
   in the body, is null ({}) or a time *)
UpdateBody(title, description, e, pub) ==
  [title |-> title, description |-> description, endDate |-> e, isPublic |-> pub]

UpdateBodies ==
  {UpdateBody(title, d, e, pub) :
     title \in {{}} \cup {{t} : t \in Texts}, d \in {{}, {<<"a", " ">>}},
     e \in {{}, {{}}} \cup {{{t}} : t \in 0..MaxTime},
     pub \in {{}} \cup {{b} : b \in BOOLEAN}}

RespUpdated == Response(200, "success", FALSE)
RespTitleEmpty == Response(400, "Title cannot be empty", FALSE)
RespEndDatePast == Response(400, "End date must be in the future", FALSE)
RespUpdateFailed == Response(500, "Failed to update poll", FALSE)
RespDeleteFailed == Response(500, "Failed to delete poll", FALSE)

(* lines 178-197 and 286-305: fetchError || !existingPoll, then the owner *)
OwnerCheck(found, uid, up) ==
  IF ~up \/ found = {} THEN RespPollNotFound
  ELSE IF \E p \in found : p.user_id # uid THEN RespAccessDenied
  ELSE NoResponse

(* lines 160-197 (PUT) and 268-305 (DELETE) *)
ManagePollStart ==
  /\ mgmt.pc = "idle"
  /\ \E op \in {"PUT", "DELETE"} : \E uid \in Users : \E pid \in PollIds :
     \E up \in BOOLEAN :
       LET q == PollRequest(op, "idle", uid, pid, NoBody, NoResponse, ErrNone)
           refused == OwnerCheck(SelectPoll(pid, uid), uid, up)
       IN  mgmt' = IF refused # NoResponse
                   THEN Done(q, refused, IF up THEN ErrNone ELSE ErrUnavailable)
                   ELSE [q EXCEPT !.pc = "write"]
  /\ UNCHANGED <<polls, options, votes, now, req, ui, listing, demo>>

(* lines 203-232: the first failing validation of the body, NoResponse if
   none *)
ValidateUpdate(body, t) ==
  IF \E title \in body.title : Blank(title) THEN RespTitleEmpty
  ELSE IF \E e \in body.endDate : \E d \in e : d <= t THEN RespEndDatePast
  ELSE NoResponse

(* an update that writes every column, an absent field as the default of a
   creation *)
UpdatedRowWhole(p, body) ==
  [p EXCEPT
     !.title = IF body.title = {} THEN @ ELSE Trim(CHOOSE t \in body.title : TRUE),
     !.description = TrimOrNull(body.description),
     !.end_date = IF body.endDate = {} THEN {} ELSE CHOOSE e \in body.endDate : TRUE,
     !.is_public = PublicOrDefault(body.isPublic)]

(* updateData applied to the row p *)
UpdatedRow(p, body) ==
  [p EXCEPT
     !.title = IF body.title = {} THEN @ ELSE Trim(CHOOSE t \in body.title : TRUE),
     !.description = IF body.description = {} THEN @ ELSE TrimOrNull(body.description),
     !.end_date = IF body.endDate = {} THEN @ ELSE CHOOSE e \in body.endDate : TRUE,
     !.is_public = IF body.isPublic = {} THEN @ ELSE CHOOSE b \in body.isPublic : TRUE]

(* UPDATE polls SET .. WHERE id = pid by uid: policy "Users can update their
   own polls" hides the polls of others from the statement *)
PollsUpdated(pid, uid) == {p \in polls : p.id = pid /\ p.user_id = uid}

(* lines 199-248 *)
PutPollUpdate ==
  /\ mgmt.op = "PUT"
  /\ mgmt.pc = "write"
  /\ \E body \in UpdateBodies : \E up \in BOOLEAN :
       LET q == [mgmt EXCEPT !.body = body]
           invalid == ValidateUpdate(body, now)
           old == PollsUpdated(mgmt.poll, mgmt.user)
       IN  IF invalid # NoResponse
           THEN /\ mgmt' = Done(q, invalid, ErrNone)
                /\ polls' = polls
           ELSE IF ~up
           THEN /\ mgmt' = Done(q, RespUpdateFailed, ErrUnavailable)
                /\ polls' = polls
           ELSE /\ mgmt' = Done(q, RespUpdated, ErrNone)
                /\ polls' = (polls \ old) \cup {UpdatedRow(p, body) : p \in old}
  /\ UNCHANGED <<options, votes, now, req, ui, listing, demo>>

(* lines 307-321: the delete, the cascade is the store's *)
DeletePollDelete ==
  /\ mgmt.op = "DELETE"
  /\ mgmt.pc = "write"
  /\ \E up \in BOOLEAN :
       IF ~up
       THEN /\ mgmt' = Done(mgmt, RespDeleteFailed, ErrUnavailable)
            /\ UNCHANGED <<polls, options, votes>>
       ELSE /\ mgmt' = Done(mgmt, RespUpdated, ErrNone)
            /\ polls' = polls \ PollsDeleted(mgmt.poll, mgmt.user)
            /\ options' = options \ OptionsDeleted(mgmt.poll, mgmt.user)
            /\ votes' = votes \ VotesDeleted(mgmt.poll, mgmt.user)
  /\ UNCHANGED <<now, req, ui, listing, demo>>

InitManage ==
  /\ polls \in {{PollRow("p1", "u1", pub, {}), PollRow("p2", "u2", TRUE, {})} :
                  pub \in BOOLEAN}
  /\ options = InitOptions
  /\ votes = {}
  /\ now = 0
  /\ req = [r \in Reqs |-> Idle]
  /\ mgmt = NoPollRequest
  /\ ui = ResultsLoading
  /\ listing = NoListing
  /\ demo = DemoStart

(* the vote requests that run next to the request on the poll *)
ManageReqs == {"r1"}

NextManage ==
  \/ Tick
  \/ ManagePollStart
  \/ PutPollUpdate
  \/ DeletePollDelete
  \/ \E r \in ManageReqs : VoteRouteStart(r)
  \/ \E r \in ManageReqs : VoteRouteCheck(r)
  \/ \E r \in ManageReqs : VoteRouteInsert(r)
  \/ \E r \in ManageReqs : SubmitVoteStart(r)
  \/ \E r \in ManageReqs : SubmitVoteInsert(r)
  \/ \E r \in ManageReqs : VotePageLoad(r)
  \/ \E r \in ManageReqs : HandleVoteSubmission(r)

SpecManage == InitManage /\ [][NextManage]_vars

(* ================== properties of PUT and DELETE ======================= *)

(* C18: a PUT or DELETE on a stored poll by a user who is not its owner is
   answered 403 "Access denied" when the store answers, and leaves polls,
   options and votes as they were. *)
C18_OnlyOwner ==
  [][(/\ mgmt.pc = "idle"
      /\ mgmt'.op \in {"PUT", "DELETE"}
      /\ mgmt'.err = ErrNone
      /\ \E p \in polls : p.id = mgmt'.poll /\ p.user_id # mgmt'.user)
     => (/\ mgmt'.resp = RespAccessDenied
         /\ UNCHANGED store)]_vars

(* the row q is the row p with the fields of body written and the others
   kept *)
PartiallyUpdated(p, q, body) ==
  /\ q.id = p.id
  /\ q.user_id = p.user_id
  /\ q.created_at = p.created_at
  /\ IF body.title = {} THEN q.title = p.title
     ELSE \A t \in body.title : q.title = Trim(t)
  /\ IF body.description = {} THEN q.description = p.description
     ELSE \A d \in body.description :
            q.description = IF Trim(d) = <<>> THEN {} ELSE {Trim(d)}
  /\ IF body.endDate = {} THEN q.end_date = p.end_date
     ELSE \A e \in body.endDate : q.end_date = e
  /\ IF body.isPublic = {} THEN q.is_public = p.is_public
     ELSE \A b \in body.isPublic : q.is_public = b

(* C22: a successful PUT writes the fields of its body to the poll and keeps
   every other field, the other polls, the options and the votes; a PUT
   answered 400 changes nothing. *)
C22_PartialUpdate ==
  [][(mgmt.op = "PUT" /\ mgmt.pc = "write" /\ mgmt'.pc = "done")
     => IF mgmt'.resp = RespUpdated
        THEN /\ options' = options
             /\ votes' = votes
             /\ Cardinality(polls') = Cardinality(polls)
             /\ \A p \in polls :
                  IF p.id # mgmt.poll THEN p \in polls'
                  ELSE \E q \in polls' : PartiallyUpdated(p, q, mgmt'.body)
        ELSE mgmt'.resp.status = 400 => UNCHANGED store]_vars

(* a PUT with a title and without isPublic succeeded on a private poll: the
   title is the one of the body, the poll is still private *)
C22_Witness ==
  /\ mgmt.op = "PUT"
  /\ mgmt.pc = "done"
  /\ mgmt.resp = RespUpdated
  /\ mgmt.body.title = {<<"a", " ">>}
  /\ mgmt.body.isPublic = {}
  /\ \E p \in polls : p.id = mgmt.poll /\ p.title = <<"a">> /\ ~p.is_public

(* a PUT was answered 400 *)
PutRejected == mgmt.op = "PUT" /\ mgmt.resp.status = 400

(* C19: every option and every vote references a stored poll, and after a
   successful DELETE no option and no vote references the deleted poll,
   whatever vote requests ran next to it. *)
C19_NoDanglingRows ==
  /\ \A o \in options : \E p \in polls : p.id = o.poll_id
  /\ \A v \in votes : \E p \in polls : p.id = v.poll_id
  /\ (mgmt.op = "DELETE" /\ mgmt.pc = "done" /\ mgmt.resp = RespUpdated)
       => /\ ~ \E o \in options : o.poll_id = mgmt.poll
          /\ ~ \E v \in votes : v.poll_id = mgmt.poll

(* a vote was stored on a poll and the DELETE of that poll took it away *)
C19_Witness ==
  /\ mgmt.op = "DELETE"
  /\ mgmt.pc = "done"
  /\ mgmt.resp = RespUpdated
  /\ \E r \in Reqs :
       /\ req[r].pc = "done"
       /\ req[r].poll = mgmt.poll
       /\ req[r].resp \in {RespSuccess, LibSuccess, PageSuccess}
       /\ ~ \E v \in votes : v.id = r

(* a vote request passed its checks, the poll was deleted, and the insert was
   then refused by the foreign key *)
DeleteBeforeInsert ==
  /\ mgmt.op = "DELETE"
  /\ mgmt.resp = RespUpdated
  /\ \E r \in Reqs :
       /\ req[r].path = "api"
       /\ req[r].poll = mgmt.poll
       /\ req[r].err = ErrForeignKey

(* C20: a stored vote stays in the store as it is; it leaves the store only
   in a step in which its poll is deleted. *)
C20_AppendOnly ==
  [][\A v \in votes :
       \/ v \in votes'
       \/ ~ \E p \in polls' : p.id = v.poll_id]_vars

(* ========================= the poll listing ============================ *)
(* GET /polls of app/api/polls/route.ts and fetchPolls of lib/db.ts.        *)

(* Math.min(.., 50): the most items of a page *)
MaxLimit == 50

(* searchParams.get('limit') || '10' *)
DefaultLimit == 10

(* searchParams.get('page') || '1', Math.max(.., 1) *)
FirstPage == 1

(* who asks: a signed-in user or nobody *)
Requesters == Users \cup {"anon"}

(* the integers a limit or page parameter may carry; {} is an absent one *)
LimitParams == {{}} \cup {{n} : n \in {-1, 0, 1, 2, MaxLimit, MaxLimit + 1}}

PageParams == {{}} \cup {{n} : n \in {-1, 0, 1, 2}}

Minimum(a, b) == IF a < b THEN a ELSE b

Maximum(a, b) == IF a > b THEN a ELSE b

(* route.ts lines 45-54 *)
parseQueryParams(limit, page) ==
  [limit |-> Minimum(IF limit = {} THEN DefaultLimit ELSE CHOOSE n \in limit : TRUE,
                     MaxLimit),
   page |-> Maximum(IF page = {} THEN FirstPage ELSE CHOOSE n \in page : TRUE,
                    FirstPage)]

(* the visibility filter on top of row-level security: route.ts lines 71-76
   (owner is the session user), db.ts lines 42-47 (owner is the userId
   argument, {} when absent) *)
MatchedPollsUnfiltered(uid, owner) == polls

MatchedPolls(uid, owner) ==
  {p \in VisiblePolls(uid) : p.is_public \/ p.user_id \in owner}

(* .order('created_at', {ascending: false}) and .order('end_date',
   {ascending: true, nullsLast: true}); rows that compare equal come in any
   order *)
Sorted(order, sort) ==
  \A i, j \in DOMAIN order : i < j =>
    IF sort = "newest" THEN order[i].created_at >= order[j].created_at
    ELSE /\ order[i].end_date = {} => order[j].end_date = {}
         /\ \A a \in order[i].end_date : \A b \in order[j].end_date : a <= b

(* .range(from, to): offset from, limit to - from + 1; the store refuses a
   negative offset or limit *)
RangeRefused(from, to) == from < 0 \/ to - from + 1 < 0

RangeRows(order, from, to) ==
  [i \in 1..Maximum(0, Minimum(to + 1, Len(order)) - from) |-> order[from + i].id]

(* the range of a page: route.ts lines 93-96, db.ts lines 23-25 *)
RangeFrom(q) == (q.page - 1) * q.limit

RangeTo(q) == RangeFrom(q) + q.limit - 1

(* route.ts lines 116-148: the select carries no count option, so count is
   null and total is count || 0 *)
GetPolls ==
  /\ listing.op = "none"
  /\ \E uid \in Requesters : \E limit \in LimitParams : \E page \in PageParams :
     \E sort \in {"newest", "ending"} : \E up \in BOOLEAN :
       LET q == parseQueryParams(limit, page)
           from == RangeFrom(q)
           to == RangeTo(q)
           matched == MatchedPolls(uid, {uid})
       IN  /\ IF ~up \/ RangeRefused(from, to)
              THEN listing' = Listing("GET", uid, q.limit, q.page, from, to, 500,
                                      <<>>, 0, FALSE)
              ELSE \E order \in RowOrders(matched) :
                     /\ Sorted(order, sort)
                     /\ listing' = Listing("GET", uid, q.limit, q.page, from, to, 200,
                                           RangeRows(order, from, to), 0,
                                           0 > q.page * q.limit)
           /\ UNCHANGED <<polls, options, votes, now, req, mgmt, ui, demo>>

(* db.ts lines 10-95: page and limit as the caller gives them, the count
   asked of the store with {count: 'exact'}; an error is thrown (status 0) *)
FetchPolls ==
  /\ listing.op = "none"
  /\ \E uid \in Requesters : \E owner \in {{}} \cup {{u} : u \in Users} :
     \E limit \in LimitParams : \E page \in PageParams :
     \E sort \in {"newest", "ending"} : \E up \in BOOLEAN :
       LET q == [limit |-> IF limit = {} THEN DefaultLimit ELSE CHOOSE n \in limit : TRUE,
                 page |-> IF page = {} THEN FirstPage ELSE CHOOSE n \in page : TRUE]
           from == RangeFrom(q)
           to == RangeTo(q)
           matched == MatchedPolls(uid, owner)
           count == Cardinality(matched)
       IN  /\ IF ~up \/ RangeRefused(from, to)
              THEN listing' = Listing("fetchPolls", uid, q.limit, q.page, from, to, 0,
                                      <<>>, 0, FALSE)
              ELSE \E order \in RowOrders(matched) :
                     /\ Sorted(order, sort)
                     /\ listing' = Listing("fetchPolls", uid, q.limit, q.page, from, to,
                                           200, RangeRows(order, from, to), count,
                                           count # 0 /\ count > q.page * q.limit)
           /\ UNCHANGED <<polls, options, votes, now, req, mgmt, ui, demo>>

(* ================= the InteractiveDemo component (part_011) ============ *)

currentPoll == demoPolls[demo.selectedPoll]

(* the seed votes of the demo poll index: demoPolls[index].options.map(opt =>
   opt.votes) *)
SeedVotes(index) == demoPolls[index].votes

(* handleVote without its first line *)
VotedUnguarded(d, optionId) ==
  DemoState(d.selectedPoll, TRUE, {optionId},
            [i \in DOMAIN d.localVotes |->
               IF demoPolls[d.selectedPoll].options[i] = optionId
               THEN d.localVotes[i] + 1 ELSE d.localVotes[i]],
            "handleVote")

(* lines 106-120 applied to the state d *)
Voted(d, optionId) ==
  IF d.hasVoted THEN [d EXCEPT !.last = "handleVote"]
  ELSE DemoState(d.selectedPoll, TRUE, {optionId},
                 [i \in DOMAIN d.localVotes |->
                    IF demoPolls[d.selectedPoll].options[i] = optionId
                    THEN d.localVotes[i] + 1 ELSE d.localVotes[i]],
                 "handleVote")

(* a click on an option of the poll shown *)
handleVote ==
  /\ \E i \in DOMAIN currentPoll.options :
       demo' = Voted(demo, currentPoll.options[i])
  /\ UNCHANGED <<polls, options, votes, now, req, mgmt, ui, listing>>

(* lines 122-127 *)
switchPoll ==
  /\ \E index \in DOMAIN demoPolls :
       demo' = DemoState(index, FALSE, {}, SeedVotes(index), "switchPoll")
  /\ UNCHANGED <<polls, options, votes, now, req, mgmt, ui, listing>>

(* lines 129-133 *)
resetDemo ==
  /\ demo' = DemoState(demo.selectedPoll, FALSE, {}, SeedVotes(demo.selectedPoll),
                       "resetDemo")
  /\ UNCHANGED <<polls, options, votes, now, req, mgmt, ui, listing>>

(* ============== the pages that read: listing and demo ================== *)

InitBrowse ==
  /\ polls \in {{PollRow("p1", "u1", pub1, {}), PollRow("p2", "u2", pub2, {1})} :
                  pub1 \in BOOLEAN, pub2 \in BOOLEAN}
  /\ options = InitOptions
  /\ votes = {}
  /\ now = 0
  /\ req = [r \in Reqs |-> Idle]
  /\ mgmt = NoPollRequest
  /\ ui = ResultsLoading
  /\ listing = NoListing
  /\ demo = DemoStart

NextBrowse ==
  \/ GetPolls
  \/ FetchPolls
  \/ handleVote
  \/ switchPoll
  \/ resetDemo

SpecBrowse == InitBrowse /\ [][NextBrowse]_vars

(* ================= properties of the listing and the demo ============== *)

(* C23: a listing contains only polls that are public or owned by the
   requester. *)
C23_ListingVisible ==
  \A i \in DOMAIN listing.rows :
    \E p \in polls : /\ p.id = listing.rows[i]
                     /\ (p.is_public \/ p.user_id = listing.user)

(* a requester was listed a private poll of their own while a private poll of
   another user is stored *)
C23_Witness ==
  /\ \E i \in DOMAIN listing.rows :
       \E p \in polls : p.id = listing.rows[i] /\ ~p.is_public
  /\ \E p \in polls : ~p.is_public /\ p.user_id # listing.user

(* C26: the range GET /polls asks the store for satisfies 0 <= from <= to and
   to - from + 1 <= 50. *)
C26_RangeWithinBounds ==
  listing.op = "GET" =>
    /\ 0 <= listing.from
    /\ listing.from <= listing.to
    /\ listing.to - listing.from + 1 <= MaxLimit

(* the polls the requester of the listing may see under the filter *)
VisibleToRequester ==
  {p \in polls : p.is_public \/ p.user_id = listing.user}

(* C28: in the answer of GET /polls total is the number of polls visible to
   the requester and hasMore holds exactly when that number exceeds
   page * limit. *)
C28_TotalAndHasMore ==
  (listing.op = "GET" /\ listing.status = 200) =>
    /\ listing.total = Cardinality(VisibleToRequester)
    /\ listing.hasMore = (Cardinality(VisibleToRequester) > listing.page * listing.limit)

(* the option of the poll shown that has one vote more than its seed *)
Incremented ==
  {i \in DOMAIN demo.localVotes :
     demo.localVotes[i] = SeedVotes(demo.selectedPoll)[i] + 1}

(* the counts shown are the seed counts of the selected demo poll, with the
   selected option one higher exactly when hasVoted; resetDemo and switchPoll
   restore the seed counts with hasVoted false and no selected option *)
DemoCounts ==
  /\ DOMAIN demo.localVotes = DOMAIN currentPoll.options
  /\ \A i \in DOMAIN demo.localVotes :
       demo.localVotes[i] =
         SeedVotes(demo.selectedPoll)[i]
           + (IF demo.hasVoted /\ demo.selectedOption = {currentPoll.options[i]}
              THEN 1 ELSE 0)
  /\ Cardinality(Incremented) = (IF demo.hasVoted THEN 1 ELSE 0)
  /\ ~demo.hasVoted => demo.selectedOption = {}
  /\ demo.last \in {"resetDemo", "switchPoll"} =>
       /\ ~demo.hasVoted
       /\ demo.localVotes = SeedVotes(demo.selectedPoll)

(* a handleVote while hasVoted leaves counts, selection and poll as they
   were *)
VoteOnce ==
  [][(demo.hasVoted /\ demo'.last = "handleVote" /\ demo' # demo)
     => /\ demo'.localVotes = demo.localVotes
        /\ demo'.selectedOption = demo.selectedOption
        /\ demo'.selectedPoll = demo.selectedPoll
        /\ demo'.hasVoted]_vars

(* C27: after any sequence of handleVote, resetDemo and switchPoll the
   counts shown are the seed counts of the selected demo poll with at most
   the selected option one higher, that only when hasVoted; a handleVote
   while hasVoted changes nothing; resetDemo and switchPoll restore the seed
   counts with hasVoted false and no selected option. *)
C27_DemoVotes == []DemoCounts /\ VoteOnce

(* a vote was cast on the second demo poll after a switch *)
C27_Witness ==
  /\ demo.selectedPoll = 2
  /\ demo.hasVoted
  /\ demo.selectedOption = {"opt-6"}
  /\ demo.localVotes = <<8, 13, 6>>
  /\ demo.last = "handleVote"

(* ==================== properties across the vote paths ================== *)

(* section 4.1: the five preconditions of a vote, for the row about to be
   written at time t *)
Preconditions(v, t) ==
  /\ StoredPoll(v.poll_id) # {}
  /\ \A p \in StoredPoll(v.poll_id) : PollVisible(p, v.user_id) /\ NotEnded(p, t)
  /\ OptionOfPoll(v.option_id, v.poll_id)
  /\ ~HasVote(v.poll_id, v.user_id)

(* C24: every vote written, by the vote route, by submitVote or by the vote
   page, is the vote of a request for which the five preconditions hold: the
   poll is stored, the voter may see it, it has not ended, the option is one
   of its options and the voter has no vote on it yet. *)
C24_ValidatedWrites ==
  [][\A v \in votes' \ votes : Preconditions(v, now)]_vars

(* the answer of the API route and that of fetchPollById for poll p read by
   uid carry the same counts and the same total *)
AggregationsAgree(uid, p) ==
  LET g == GetPoll(uid, p.id)
      f == fetchPollById(p.id, uid)
  IN  (g.status = 200 /\ f.body = "ok")
        => g.options = f.options /\ g.totalVotes = f.totalVotes

(* C29: in every reachable store state and for every poll, GET /polls/{id}
   and fetchPollById return the same per-option counts and the same
   totalVotes. *)
C29_AggregationsAgree ==
  \A uid \in Users : \A p \in polls : AggregationsAgree(uid, p)

(* C30: no stored vote has a creation time at or after the end of its poll. *)
C30_NoVoteAfterEnd ==
  \A v \in votes : \A p \in StoredPoll(v.poll_id) : NotEnded(p, v.created_at)

====
